---- MODULE Spec2Model ----
(***************************************************************************)
(* Segmented HTTP downloader (src/APS1/main.go and src/APS2/main.go).      *)
(*                                                                         *)
(* One run of the program: the HEAD probe (getFileSize), the chunk plan,   *)
(* the creation and preallocation of the output file, the rate limiter,    *)
(* one goroutine per chunk (downloadChunk) copying its response body       *)
(* through rateLimitedReader into sectionWriter, and wg.Wait.              *)
(*                                                                         *)
(* The two programs differ in main's handling of its inputs and in the     *)
(* RateLimiter: APS1 feeds a buffered channel from a ticker goroutine,     *)
(* APS2 keeps a mutex-protected counter refilled from the elapsed time.    *)
(* `variant` says which program runs.                                      *)
(*                                                                         *)
(* Sizes are scaled: a byte of the model is a byte of the file, ReadCap    *)
(* stands for the 16 KiB read quantum and BytesPerMB for the 1 MiB of      *)
(* main.go's limitMB * 1024 * 1024; time is counted in ticks, TicksPerSec  *)
(* to the second.                                                          *)
(***************************************************************************)
EXTENDS Integers, Sequences, FiniteSets, TLC

\* ------------------------------------------------------------ bounds
\* Largest Content-Length the server announces.
MaxSize == 4
\* Largest thread count typed in or passed on the command line.
MaxThreads == 2
\* Largest bandwidth cap (MB/s) given.
MaxLimitMB == 1
\* Scaled read quantum: the 16*1024 of rateLimitedReader.Read.
ReadCap == 2
\* Scaled 1024*1024 of NewRateLimiter(limitMB * 1024 * 1024).
BytesPerMB == 2
\* Clock ticks per second.
TicksPerSec == 2
\* Number of ticks the consumption meter records.
MaxClock == 5

\* Largest file size and thread count the chunk plan alone is computed for.
MaxPlanSize == 12

MaxPlanThreads == 12

\* ------------------------------------------------------------ helpers
Min(a, b) == IF a < b THEN a ELSE b

Max(a, b) == IF a > b THEN a ELSE b

Abs(a) == IF a < 0 THEN -a ELSE a

\* Go's integer division: the quotient truncated toward zero (b # 0).
GoDiv(a, b) ==
    LET q == Abs(a) \div Abs(b)
    IN  IF (a < 0) = (b < 0) THEN q ELSE -q

RECURSIVE SumSeq(_)
SumSeq(s) == IF s = <<>> THEN 0 ELSE Head(s) + SumSeq(Tail(s))

\* The file served: byte k (from 0) has the value k + 1, so that a byte
\* stored at the wrong offset differs from the source. 0 is a zero byte.
Source(size) == [k \in 1..size |-> k]

\* A header value is the sequence of its characters; "" is <<>>.
Digits == <<"0", "1", "2", "3", "4", "5", "6", "7", "8", "9">>

IsDigit(c) == \E d \in 1..10 : Digits[d] = c

DigitVal(c) == (CHOOSE d \in 1..10 : Digits[d] = c) - 1

\* The decimal text of n >= 0, as the server writes a Content-Length.
RECURSIVE FormatInt(_)
FormatInt(n) ==
    IF n < 10 THEN <<Digits[n + 1]>>
    ELSE FormatInt(n \div 10) \o <<Digits[(n % 10) + 1]>>

RECURSIVE ParseDigits(_, _)
ParseDigits(s, acc) ==
    IF s = <<>> THEN acc ELSE ParseDigits(Tail(s), acc * 10 + DigitVal(Head(s)))

\* strconv.ParseInt(s, 10, 64): an optional sign and one or more digits, or
\* an error.
ParseInt(s) ==
    LET signed == s # <<>> /\ Head(s) \in {"+", "-"}
        digits == IF signed THEN Tail(s) ELSE s
    IN  IF digits = <<>> \/ \E i \in 1..Len(digits) : ~IsDigit(digits[i])
        THEN [err |-> TRUE, val |-> 0]
        ELSE [err |-> FALSE,
              val |-> IF signed /\ Head(s) = "-" THEN -ParseDigits(digits, 0)
                      ELSE ParseDigits(digits, 0)]

\* ------------------------------------------------------------ state
VARIABLES
    variant,    \* "APS1" or "APS2": the program that runs
    threads,    \* main: the thread count given
    limitMB,    \* main: the bandwidth cap given
    server,     \* how the server answers a ranged GET: "range" or "full"
    head,       \* the HEAD response getFileSize reads
    phase,      \* the run: Idle, Probing, Planning, Transferring, Done, Failed, ...
    cause,      \* why the run ended in Failed or Panic
    fileSize,   \* runDownload/main: fileSize
    chunkSize,  \* runDownload/main: chunkSize
    chunks,     \* runDownload/main: chunks
    launched,   \* the launch loop's i: goroutines started so far
    wg,         \* sync.WaitGroup counter
    fstate,     \* the output file: "absent", "open", "closed"
    file,       \* the output file's bytes
    cstart,     \* per goroutine: start
    cend,       \* per goroutine: end
    pc,         \* per goroutine: where downloadChunk stands
    offset,     \* per goroutine: sectionWriter.offset
    body,       \* per goroutine: the response body
    pos,        \* per goroutine: bytes of the body read so far
    buf,        \* per goroutine: bytes read and not yet written
    got,        \* per goroutine: tokens its current Wait call has taken (APS1: Wait's i)
    gets,       \* per goroutine: GET requests sent
    wrote,      \* per goroutine: the offsets it has written
    tokens,     \* APS1: len(rl.tokens); APS2: rl.tokens
    elapsed,    \* APS2: now - rl.lastRefill, in ticks (saturating at a second)
    tickerAge,  \* APS1: ticks since the ticker last fired
    tickBuf,    \* APS1: ticks waiting in ticker.C (capacity 1)
    fillI,      \* APS1: the refill goroutine's i, or -1 while it waits for a tick
    metered,    \* whether this run's token consumption is metered
    meter       \* tokens consumed at each tick since the limiter was built

runVars == <<variant, threads, limitMB, server, head, phase, cause, fileSize,
             chunkSize, chunks, launched, wg, fstate, file>>

fetchVars == <<cstart, cend, pc, offset, body, pos, buf, got, gets, wrote>>

limVars == <<tokens, elapsed, tickerAge, tickBuf, fillI, metered, meter>>

vars == <<runVars, fetchVars, limVars>>

Variants == {"APS1", "APS2"}

Servers == {"range", "full"}

\* What a HEAD may come back with: a transport error, or the two headers.
AcceptRangesValues == {"bytes", "none", ""}

ContentLengthValues ==
    {<<>>, <<"a", "b", "c">>} \cup {FormatInt(n) : n \in 0..MaxSize}

HeadResponses ==
    {[err |-> TRUE, acceptRanges |-> "", contentLength |-> <<>>]} \cup
    [err : {FALSE}, acceptRanges : AcceptRangesValues,
     contentLength : ContentLengthValues]

NoHead == [err |-> FALSE, acceptRanges |-> "", contentLength |-> <<>>]

\* rl's capacity: limitMB * 1024 * 1024.
Capacity == limitMB * BytesPerMB

Fetchers == 1..launched

Returned(k) == pc[k] \in {"ok", "failed"}

\* The run as the design describes it, from main's position.
RunState ==
    CASE phase \in {"Planning", "Creating", "Sizing", "Limiting"} -> "Planning"
      [] phase \in {"Launching", "Waiting"} -> "Transferring"
      [] phase = "Exited" -> "Done"
      [] OTHER -> phase

\* ------------------------------------------------------------ start
InitRun(maxThreads) ==
    /\ variant \in Variants
    /\ threads \in 0..maxThreads
    /\ limitMB \in 1..MaxLimitMB
    /\ server \in Servers
    /\ head = NoHead
    /\ phase = "Idle"
    /\ cause = "none"
    /\ fileSize = 0
    /\ chunkSize = 0
    /\ chunks = 0
    /\ launched = 0
    /\ wg = 0
    /\ fstate = "absent"
    /\ file = <<>>
    /\ cstart = <<>>
    /\ cend = <<>>
    /\ pc = <<>>
    /\ offset = <<>>
    /\ body = <<>>
    /\ pos = <<>>
    /\ buf = <<>>
    /\ got = <<>>
    /\ gets = <<>>
    /\ wrote = <<>>
    /\ tokens = 0
    /\ elapsed = 0
    /\ tickerAge = 0
    /\ tickBuf = 0
    /\ fillI = -1
    /\ meter = <<>>

Init == InitRun(MaxThreads) /\ metered = FALSE

\* main, up to the call of getFileSize. APS2 rejects threads <= 0 and
\* limitMB <= 0 (log.Fatalln); APS1 reads both from stdin and checks neither.
ArgsValid == variant = "APS1" \/ (threads > 0 /\ limitMB > 0)

Begin ==
    /\ phase = "Idle"
    /\ phase' = IF ArgsValid THEN "Probing" ELSE "Rejected"
    /\ cause' = IF ArgsValid THEN cause ELSE "args"
    /\ UNCHANGED <<variant, threads, limitMB, server, head, fileSize, chunkSize,
                   chunks, launched, wg, fstate, file>>
    /\ UNCHANGED <<fetchVars, limVars>>

\* getFileSize without the Accept-Ranges test.
GetFileSizeAnyRanges(resp) ==
    IF resp.err THEN [err |-> "transport", size |-> 0]
    ELSE IF resp.contentLength = <<>> THEN [err |-> "nolength", size |-> 0]
    ELSE IF ParseInt(resp.contentLength).err THEN [err |-> "badlength", size |-> 0]
    ELSE [err |-> "none", size |-> ParseInt(resp.contentLength).val]

\* getFileSize on a HEAD response: the size, or the error it returns.
GetFileSize(resp) ==
    IF resp.err THEN [err |-> "transport", size |-> 0]
    ELSE IF resp.acceptRanges # "bytes" THEN [err |-> "norange", size |-> 0]
    ELSE IF resp.contentLength = <<>> THEN [err |-> "nolength", size |-> 0]
    ELSE IF ParseInt(resp.contentLength).err THEN [err |-> "badlength", size |-> 0]
    ELSE [err |-> "none", size |-> ParseInt(resp.contentLength).val]

\* The HEAD response arrives and getFileSize returns.
Probe ==
    /\ phase = "Probing"
    /\ \E resp \in HeadResponses :
        LET r == GetFileSize(resp)
        IN  /\ head' = resp
            /\ IF r.err = "none"
               THEN /\ phase' = "Planning"
                    /\ fileSize' = r.size
                    /\ cause' = cause
               ELSE /\ phase' = "Failed"
                    /\ fileSize' = fileSize
                    /\ cause' = r.err
    /\ UNCHANGED <<variant, threads, limitMB, server, chunkSize, chunks,
                   launched, wg, fstate, file>>
    /\ UNCHANGED <<fetchVars, limVars>>

\* The chunk size rounded down.
PlanChunkSizeFloor(size, n) == GoDiv(size, n)

\* The chunk count rounded down.
PlanChunksFloor(size, cs) == GoDiv(size, cs)

\* chunkSize := (fileSize + threads - 1) / threads
PlanChunkSize(size, n) == GoDiv(size + n - 1, n)

\* chunks := (fileSize + chunkSize - 1) / chunkSize
PlanChunks(size, cs) == GoDiv(size + cs - 1, cs)

\* The launch loop's start and end for index i (from 0).
ChunkStart(i, cs) == i * cs

\* The end without the clip to fileSize - 1.
ChunkEndUnclipped(i, cs, size) == (i + 1) * cs - 1

ChunkEnd(i, cs, size) ==
    IF (i + 1) * cs - 1 >= size THEN size - 1 ELSE (i + 1) * cs - 1

\* The two divisions; either panics on a zero divisor.
Plan ==
    /\ phase = "Planning"
    /\ chunkSize = 0 /\ chunks = 0 /\ cause = "none"
    /\ IF threads = 0 \/ PlanChunkSize(fileSize, threads) = 0
       THEN /\ phase' = "Panic"
            /\ cause' = "divide"
            /\ UNCHANGED <<chunkSize, chunks>>
       ELSE /\ chunkSize' = PlanChunkSize(fileSize, threads)
            /\ chunks' = PlanChunks(fileSize, chunkSize')
            /\ phase' = "Creating"
            /\ cause' = cause
    /\ UNCHANGED <<variant, threads, limitMB, server, head, fileSize, launched,
                   wg, fstate, file>>
    /\ UNCHANGED <<fetchVars, limVars>>

\* os.Create: the file exists, empty, or the run ends.
Create ==
    /\ phase = "Creating"
    /\ \/ /\ fstate' = "open"
          /\ file' = <<>>
          /\ phase' = "Sizing"
          /\ cause' = cause
       \/ /\ phase' = "Failed"
          /\ cause' = "create"
          /\ UNCHANGED <<fstate, file>>
    /\ UNCHANGED <<variant, threads, limitMB, server, head, fileSize, chunkSize,
                   chunks, launched, wg>>
    /\ UNCHANGED <<fetchVars, limVars>>

\* outFile.Truncate(fileSize): zero bytes up to fileSize; on an error the
\* deferred Close runs and the run ends.
Zeros(n) == [k \in 1..n |-> 0]

\* A Truncate whose error is not looked at: the run goes on.
TruncateUnchecked ==
    /\ phase = "Sizing"
    /\ \/ file' = Zeros(fileSize)
       \/ file' = file
    /\ phase' = "Limiting"
    /\ UNCHANGED <<fstate, cause>>
    /\ UNCHANGED <<variant, threads, limitMB, server, head, fileSize, chunkSize,
                   chunks, launched, wg>>
    /\ UNCHANGED <<fetchVars, limVars>>

Truncate ==
    /\ phase = "Sizing"
    /\ \/ /\ file' = Zeros(fileSize)
          /\ phase' = "Limiting"
          /\ UNCHANGED <<fstate, cause>>
       \/ /\ phase' = "Failed"
          /\ cause' = "truncate"
          /\ fstate' = "closed"
          /\ file' = file
    /\ UNCHANGED <<variant, threads, limitMB, server, head, fileSize, chunkSize,
                   chunks, launched, wg>>
    /\ UNCHANGED <<fetchVars, limVars>>

\* NewRateLimiter: APS2 starts with a full bucket and lastRefill = now; APS1
\* starts with an empty channel and a ticker goroutine waiting for its tick.
NewRateLimiter ==
    /\ phase = "Limiting"
    /\ phase' = "Launching"
    /\ tokens' = IF variant = "APS2" THEN Capacity ELSE 0
    /\ elapsed' = 0
    /\ tickerAge' = 0
    /\ tickBuf' = 0
    /\ fillI' = -1
    /\ meter' = IF metered THEN <<0>> ELSE <<>>
    /\ UNCHANGED <<variant, threads, limitMB, server, head, cause, fileSize,
                   chunkSize, chunks, launched, wg, fstate, file>>
    /\ UNCHANGED <<fetchVars, metered>>

\* One turn of the launch loop: wg.Add(1); go downloadChunk(url, start, end, ...).
\* The loop over, main goes on to wg.Wait.
Launch ==
    /\ phase = "Launching"
    /\ IF launched < chunks
       THEN /\ launched' = launched + 1
            /\ wg' = wg + 1
            /\ cstart' = Append(cstart, ChunkStart(launched, chunkSize))
            /\ cend' = Append(cend, ChunkEnd(launched, chunkSize, fileSize))
            /\ pc' = Append(pc, "start")
            /\ offset' = Append(offset, 0)
            /\ body' = Append(body, <<>>)
            /\ pos' = Append(pos, 0)
            /\ buf' = Append(buf, 0)
            /\ got' = Append(got, 0)
            /\ gets' = Append(gets, 0)
            /\ wrote' = Append(wrote, {})
            /\ phase' = phase
       ELSE /\ phase' = "Waiting"
            /\ UNCHANGED <<launched, wg, fetchVars>>
    /\ UNCHANGED <<variant, threads, limitMB, server, head, cause, fileSize,
                   chunkSize, chunks, fstate, file>>
    /\ UNCHANGED limVars

\* A Wait that does not block.
WaitReturnsAtOnce == TRUE

\* wg.Wait: blocks until the counter is zero.
WaitReturns == wg = 0

\* wg.Wait returns once the counter is zero: the download is over.
WgWait ==
    /\ phase = "Waiting"
    /\ WaitReturns
    /\ phase' = "Done"
    /\ UNCHANGED <<variant, threads, limitMB, server, head, cause, fileSize,
                   chunkSize, chunks, launched, wg, fstate, file>>
    /\ UNCHANGED <<fetchVars, limVars>>

\* main logs the end of the download and returns: the deferred outFile.Close
\* runs and, in APS1, the process ends and its goroutines with it.
MainReturns ==
    /\ phase = "Done"
    /\ phase' = "Exited"
    /\ fstate' = "closed"
    /\ UNCHANGED <<variant, threads, limitMB, server, head, cause, fileSize,
                   chunkSize, chunks, launched, wg, file>>
    /\ UNCHANGED <<fetchVars, limVars>>

\* ------------------------------------------------------------ downloadChunk
Running == phase \in {"Launching", "Waiting"}

\* APS1: the refill goroutine runs from NewRateLimiter on; nothing in the
\* program stops it (its loop over ticker.C has no exit), so it runs until the
\* process ends.
RefillerAlive == variant = "APS1" /\ phase \in {"Launching", "Waiting", "Done"}

\* What the server sends for goroutine k's GET: the range asked for (206), or
\* the whole file when it ignores the Range header (200). downloadChunk reads
\* neither the status nor Content-Range.
ServerBody(k) ==
    IF server = "range"
    THEN SubSeq(Source(fileSize), cstart[k] + 1, cend[k] + 1)
    ELSE Source(fileSize)

\* A failed chunk ends the run.
PhaseAfterReturnAbort(to) == IF to = "failed" THEN "Failed" ELSE phase

\* downloadChunk returns nothing: an error is logged and main's course is
\* what it was.
PhaseAfterReturn(to) == phase

\* A return of downloadChunk: the deferred wg.Done runs.
Return(k, to) ==
    /\ pc' = [pc EXCEPT ![k] = to]
    /\ wg' = wg - 1
    /\ phase' = PhaseAfterReturn(to)

\* downloadChunk goes on to its next statement.
Goto(k, to) ==
    /\ pc' = [pc EXCEPT ![k] = to]
    /\ wg' = wg
    /\ phase' = phase

\* http.NewRequest and http.DefaultClient.Do.
Request(k) ==
    /\ Running
    /\ pc[k] = "start"
    /\ \/ /\ Return(k, "failed")
          /\ UNCHANGED <<body, gets>>
       \/ /\ gets' = [gets EXCEPT ![k] = @ + 1]
          /\ Return(k, "failed")
          /\ body' = body
       \/ /\ gets' = [gets EXCEPT ![k] = @ + 1]
          /\ body' = [body EXCEPT ![k] = ServerBody(k)]
          /\ Goto(k, "prep")
    /\ UNCHANGED <<variant, threads, limitMB, server, head, cause,
                   fileSize, chunkSize, chunks, launched, fstate, file>>
    /\ UNCHANGED <<cstart, cend, offset, pos, buf, got, wrote>>
    /\ UNCHANGED limVars

\* file.WriteAt([]byte{}, start), then the sectionWriter{file, offset: start}.
Prepare(k) ==
    /\ Running
    /\ pc[k] = "prep"
    /\ \/ /\ Return(k, "failed")
          /\ offset' = offset
       \/ /\ offset' = [offset EXCEPT ![k] = cstart[k]]
          /\ Goto(k, "wait")
    /\ UNCHANGED <<variant, threads, limitMB, server, head, cause,
                   fileSize, chunkSize, chunks, launched, fstate, file>>
    /\ UNCHANGED <<cstart, cend, body, pos, buf, got, gets, wrote>>
    /\ UNCHANGED limVars

\* ------------------------------------------------------------ RateLimiter
\* io.Copy hands Read a buffer of 32 KiB, twice the quantum.
CopyBuf == 2 * ReadCap

\* A Read that leaves p as long as io.Copy made it.
QuantumUnclipped == CopyBuf

\* rateLimitedReader.Read: p = p[:16*1024] when it is longer; len(p) is what
\* Wait is asked for.
Quantum == IF CopyBuf > ReadCap THEN ReadCap ELSE CopyBuf

\* The meter adds n tokens to the current tick's count.
Charge(n) ==
    meter' = IF meter = <<>> THEN meter ELSE [meter EXCEPT ![Len(meter)] = @ + n]

\* APS2 refill: newTokens := int64(elapsed * bytesPerSec); when positive, they
\* are added, capped at bytesPerSec, and lastRefill = now.
NewTokens == (elapsed * Capacity) \div TicksPerSec

\* A refill counted in whole seconds that always moves lastRefill.
RefillWholeSeconds ==
    [tokens |-> Min(tokens + (elapsed \div TicksPerSec) * Capacity, Capacity),
     elapsed |-> 0]

\* A refill with no ceiling.
RefillUncapped ==
    IF NewTokens > 0
    THEN [tokens |-> tokens + NewTokens, elapsed |-> 0]
    ELSE [tokens |-> tokens, elapsed |-> elapsed]

Refill ==
    IF NewTokens > 0
    THEN [tokens |-> Min(tokens + NewTokens, Capacity), elapsed |-> 0]
    ELSE [tokens |-> tokens, elapsed |-> elapsed]

\* A Wait that takes its tokens without looking whether they are there.
WaitLockedUnchecked(k) ==
    /\ Running
    /\ variant = "APS2"
    /\ pc[k] = "wait"
    /\ elapsed' = Refill.elapsed
    /\ tokens' = Refill.tokens - Quantum
    /\ got' = [got EXCEPT ![k] = Quantum]
    /\ pc' = [pc EXCEPT ![k] = "read"]
    /\ Charge(Quantum)
    /\ UNCHANGED runVars
    /\ UNCHANGED <<cstart, cend, offset, body, pos, buf, gets, wrote>>
    /\ UNCHANGED <<tickerAge, tickBuf, fillI, metered>>

\* A Wait that returns without taking its tokens.
WaitLockedKeeps(k) ==
    /\ Running
    /\ variant = "APS2"
    /\ pc[k] = "wait"
    /\ elapsed' = Refill.elapsed
    /\ tokens' = Refill.tokens
    /\ IF Refill.tokens >= Quantum
       THEN /\ got' = [got EXCEPT ![k] = Quantum]
            /\ pc' = [pc EXCEPT ![k] = "read"]
            /\ Charge(Quantum)
       ELSE UNCHANGED <<pc, got, meter>>
    /\ UNCHANGED runVars
    /\ UNCHANGED <<cstart, cend, offset, body, pos, buf, gets, wrote>>
    /\ UNCHANGED <<tickerAge, tickBuf, fillI, metered>>

\* APS2 Wait, one turn of its loop under rl.mu: refill, then either take the n
\* tokens and return, or unlock and sleep 10 ms before the next turn.
WaitLocked(k) ==
    /\ Running
    /\ variant = "APS2"
    /\ pc[k] = "wait"
    /\ elapsed' = Refill.elapsed
    /\ IF Refill.tokens >= Quantum
       THEN /\ tokens' = Refill.tokens - Quantum
            /\ got' = [got EXCEPT ![k] = Quantum]
            /\ pc' = [pc EXCEPT ![k] = "read"]
            /\ Charge(Quantum)
       ELSE /\ tokens' = Refill.tokens
            /\ UNCHANGED <<pc, got, meter>>
    /\ UNCHANGED runVars
    /\ UNCHANGED <<cstart, cend, offset, body, pos, buf, gets, wrote>>
    /\ UNCHANGED <<tickerAge, tickBuf, fillI, metered>>

\* APS1 Wait, one turn of its loop: <-rl.tokens. After n receives it returns.
WaitRecv(k) ==
    /\ Running
    /\ variant = "APS1"
    /\ pc[k] = "wait"
    /\ tokens > 0
    /\ tokens' = tokens - 1
    /\ Charge(1)
    /\ got' = [got EXCEPT ![k] = @ + 1]
    /\ pc' = IF got[k] + 1 < Quantum THEN pc ELSE [pc EXCEPT ![k] = "read"]
    /\ UNCHANGED runVars
    /\ UNCHANGED <<cstart, cend, offset, body, pos, buf, gets, wrote>>
    /\ UNCHANGED <<elapsed, tickerAge, tickBuf, fillI, metered>>

\* APS1 refill goroutine: a tick is received from ticker.C ...
RefillTick ==
    /\ RefillerAlive
    /\ fillI = -1
    /\ tickBuf > 0
    /\ tickBuf' = tickBuf - 1
    /\ fillI' = IF Capacity > 0 THEN 0 ELSE -1
    /\ UNCHANGED <<runVars, fetchVars>>
    /\ UNCHANGED <<tokens, elapsed, tickerAge, metered, meter>>

\* ... and one turn of its inner loop: a token is sent unless the channel is
\* full (select with default); after bytesPerSec turns it waits for a tick again.
RefillSend ==
    /\ RefillerAlive
    /\ fillI >= 0
    /\ tokens' = IF tokens < Capacity THEN tokens + 1 ELSE tokens
    /\ fillI' = IF fillI + 1 < Capacity THEN fillI + 1 ELSE -1
    /\ UNCHANGED <<runVars, fetchVars>>
    /\ UNCHANGED <<elapsed, tickerAge, tickBuf, metered, meter>>

\* A tick of the clock. APS2: now moves away from lastRefill (a second or more
\* refills the bucket whole, so the distance is kept up to a second). APS1: the
\* ticker fires every second into ticker.C, which holds one tick and drops the
\* rest. Once the goroutines have returned only APS1's ticker still looks at
\* the clock.
Advance ==
    /\ Running \/ RefillerAlive
    /\ IF variant = "APS2"
       THEN /\ elapsed' = Min(elapsed + 1, TicksPerSec)
            /\ UNCHANGED <<tickerAge, tickBuf>>
       ELSE /\ elapsed' = elapsed
            /\ IF tickerAge + 1 >= TicksPerSec
               THEN /\ tickerAge' = 0
                    /\ tickBuf' = 1
               ELSE /\ tickerAge' = tickerAge + 1
                    /\ tickBuf' = tickBuf
    /\ meter' = IF meter = <<>> THEN meter
                ELSE IF Len(meter) < MaxClock THEN Append(meter, 0)
                ELSE <<>>
    /\ UNCHANGED <<runVars, fetchVars>>
    /\ UNCHANGED <<tokens, fillI, metered>>

\* ------------------------------------------------------------ io.Copy
\* os.File.WriteAt(p, off): the bytes of p stored from offset off on; a write
\* past the end lengthens the file, the gap reading as zero.
WriteAt(f, p, off) ==
    [i \in 1..Max(Len(f), off + Len(p)) |->
        IF i > off /\ i <= off + Len(p) THEN p[i - off]
        ELSE IF i <= Len(f) THEN f[i] ELSE 0]

\* r.r.Read(p) once Wait has returned: some bytes of the body, its end (io.EOF, and
\* downloadChunk returns with the chunk logged as downloaded), or an error.
Read(k) ==
    /\ Running
    /\ pc[k] = "read"
    /\ \/ /\ pos[k] < Len(body[k])
          /\ \E m \in 1..Min(Quantum, Len(body[k]) - pos[k]) :
                buf' = [buf EXCEPT ![k] = m]
          /\ Goto(k, "write")
       \/ /\ pos[k] = Len(body[k])
          /\ Return(k, "ok")
          /\ buf' = buf
       \/ /\ Return(k, "failed")
          /\ buf' = buf
    /\ UNCHANGED <<variant, threads, limitMB, server, head, cause,
                   fileSize, chunkSize, chunks, launched, fstate, file>>
    /\ got' = [got EXCEPT ![k] = 0]
    /\ UNCHANGED <<cstart, cend, offset, body, pos, gets, wrote>>
    /\ UNCHANGED limVars

\* The cursor moved by the length of the buffer, not by what was written.
NextOffsetByQuantum(off, n) == off + Quantum

\* The cursor left where it was.
NextOffsetStuck(off, n) == off

\* sw.offset += int64(n)
NextOffset(off, n) == off + n

\* sectionWriter.Write: n, err := file.WriteAt(p, offset); offset += n. All of p
\* written, io.Copy reads on; fewer bytes written is an error and
\* downloadChunk returns.
Write(k) ==
    /\ Running
    /\ pc[k] = "write"
    /\ \E n \in 0..buf[k] :
        /\ file' = WriteAt(file, SubSeq(body[k], pos[k] + 1, pos[k] + n), offset[k])
        /\ offset' = [offset EXCEPT ![k] = NextOffset(@, n)]
        /\ wrote' = [wrote EXCEPT ![k] = @ \cup (offset[k]..(offset[k] + n - 1))]
        /\ pos' = [pos EXCEPT ![k] = @ + n]
        /\ buf' = [buf EXCEPT ![k] = 0]
        /\ IF n = buf[k]
           THEN Goto(k, "wait")
           ELSE Return(k, "failed")
    /\ UNCHANGED <<variant, threads, limitMB, server, head, cause,
                   fileSize, chunkSize, chunks, launched, fstate>>
    /\ UNCHANGED <<cstart, cend, body, got, gets>>
    /\ UNCHANGED limVars

\* ------------------------------------------------------------ specification
Fetch(k) ==
    \/ Request(k)
    \/ Prepare(k)
    \/ WaitLocked(k)
    \/ WaitRecv(k)
    \/ Read(k)
    \/ Write(k)

\* main (APS1) or main and runDownload (APS2), one statement at a time.
Main ==
    \/ Begin
    \/ Probe
    \/ Plan
    \/ Create
    \/ Truncate
    \/ NewRateLimiter
    \/ Launch
    \/ WgWait
    \/ MainReturns

\* The goroutine NewRateLimiter starts in APS1.
Refiller ==
    \/ RefillTick
    \/ RefillSend

Next ==
    \/ Main
    \/ \E k \in Fetchers : Fetch(k)
    \/ Refiller
    \/ Advance

Spec == Init /\ [][Next]_vars

\* The same run with its token consumption metered, against a server that
\* honours ranges.
MeterInit == InitRun(MaxThreads) /\ metered = TRUE /\ server = "range"

MeterSpec == MeterInit /\ [][Next]_vars

\* The scheduler runs every goroutine that can run, the clock ticks and main
\* goes on; what the network and the disk answer is left open. The launch
\* loop starts at most `threads` goroutines.
Fairness ==
    /\ WF_vars(Main)
    /\ \A k \in 1..MaxThreads : WF_vars(k \in Fetchers /\ Fetch(k))
    /\ WF_vars(Refiller)
    /\ WF_vars(Advance)

\* The fair runs against a server that honours ranges.
FairInit == Init /\ server = "range"

FairSpec == FairInit /\ [][Next]_vars /\ Fairness

\* The plan alone, on larger inputs: main from the probe's return to the end
\* of the launch loop, before any goroutine has run.
PlanInit ==
    /\ InitRun(MaxPlanThreads)
    /\ metered = FALSE
    /\ server = "range"

PlanProbe ==
    /\ phase = "Probing"
    /\ \E n \in 0..MaxPlanSize :
        /\ head' = [err |-> FALSE, acceptRanges |-> "bytes",
                    contentLength |-> FormatInt(n)]
        /\ phase' = IF GetFileSize(head').err = "none" THEN "Planning" ELSE "Failed"
        /\ fileSize' = GetFileSize(head').size
        /\ cause' = GetFileSize(head').err
    /\ UNCHANGED <<variant, threads, limitMB, server, chunkSize, chunks,
                   launched, wg, fstate, file>>
    /\ UNCHANGED <<fetchVars, limVars>>

PlanNext ==
    \/ Begin
    \/ PlanProbe
    \/ Plan
    \/ Create
    \/ Truncate
    \/ NewRateLimiter
    \/ Launch

PlanSpec == PlanInit /\ [][PlanNext]_vars

\* ------------------------------------------------------------ properties
\* The chunks given to the goroutines, as [start, end] pairs, split [0, size).
IsPartition(starts, ends, size) ==
    /\ Len(starts) >= 1
    /\ Len(ends) = Len(starts)
    /\ starts[1] = 0
    /\ \A i \in 1..(Len(starts) - 1) : ends[i] + 1 = starts[i + 1]
    /\ ends[Len(ends)] = size - 1
    /\ \A i \in 1..Len(starts) : starts[i] <= ends[i]
    /\ \A i, j \in 1..Len(starts) :
          i # j => (starts[i]..ends[i]) \cap (starts[j]..ends[j]) = {}
    /\ SumSeq([i \in 1..Len(starts) |-> ends[i] - starts[i] + 1]) = size

\* C1: for every file size > 0 and thread count > 0, the chunks the launch
\* loop hands out are an exact partition of [0, fileSize): the first starts at
\* 0, each starts where the one before ended, the last ends at fileSize - 1,
\* none overlap and their lengths add up to fileSize.
PartitionExact ==
    (phase = "Waiting" /\ fileSize > 0 /\ threads > 0)
        => IsPartition(cstart, cend, fileSize)

\* The launch loop has ended for 10 bytes and 4 threads, the last chunk clipped.
PartitionWitness ==
    /\ phase = "Waiting"
    /\ fileSize = 10
    /\ threads = 4
    /\ cstart = <<0, 3, 6, 9>>
    /\ cend = <<2, 5, 8, 9>>

\* C2: whatever body the server sends, a goroutine writes only inside its own
\* [start, end]: its cursor never passes end + 1, and no offset is written by
\* two goroutines.
WritesStayInRange ==
    \A k \in Fetchers :
        /\ wrote[k] \subseteq cstart[k]..cend[k]
        /\ offset[k] <= cend[k] + 1
        /\ \A j \in Fetchers : j # k => wrote[j] \cap wrote[k] = {}

AllOk == \A k \in Fetchers : pc[k] = "ok"

\* C3: against a server that honours ranges, with no goroutine failing, the
\* file at the end of the run equals the source, for every thread count >= 1
\* and every interleaving.
FileEqualsSource ==
    (phase = "Done" /\ server = "range" /\ threads >= 1 /\ AllOk)
        => file = Source(fileSize)

\* A run of two goroutines over a file of MaxSize bytes has ended, all of them
\* successful.
FidelityWitness ==
    /\ phase = "Done"
    /\ server = "range"
    /\ launched = 2
    /\ fileSize = MaxSize
    /\ AllOk
    /\ file = Source(MaxSize)

\* Tokens consumed from tick t1 to tick t2 of the meter, both included.
Spent(t1, t2) == SumSeq(SubSeq(meter, t1, t2))

\* Over every metered window, of (t2 - t1) / TicksPerSec seconds, the tokens
\* consumed are at most Capacity times the seconds plus k full buckets.
BurstWithin(k) ==
    \A t1, t2 \in 1..Len(meter) :
        t1 <= t2 =>
            TicksPerSec * Spent(t1, t2)
                <= Capacity * (t2 - t1) + k * TicksPerSec * Capacity

DoneAfterAll ==
    RunState = "Done" => (launched = chunks /\ \A k \in Fetchers : Returned(k))

\* A run has ended with one chunk failed and one downloaded.
DoneWitness ==
    /\ phase = "Done"
    /\ launched = 2
    /\ pc[1] = "failed"
    /\ pc[2] = "ok"

AllReturned == phase = "Waiting" /\ \A k \in Fetchers : Returned(k)

\* C6: no chunk's error makes the run fail: from Transferring the run only
\* stays there or goes to Done, and once every goroutine has returned it does
\* go to Done, however many of them failed.
ChunkErrorsNotFatal ==
    /\ [][RunState = "Transferring" => RunState' \in {"Transferring", "Done"}]_vars
    /\ (AllReturned ~> phase = "Done")

\* A run has ended Done with every one of its chunks failed.
AllFailedWitness ==
    /\ phase = "Done"
    /\ launched = 2
    /\ \A k \in Fetchers : pc[k] = "failed"

\* The HEAD response carries Accept-Ranges: bytes and a decimal Content-Length.
HeadOk ==
    /\ ~head.err
    /\ head.acceptRanges = "bytes"
    /\ head.contentLength # <<>>
    /\ ~ParseInt(head.contentLength).err

\* C7: the run goes past Probing only on a response with Accept-Ranges: bytes
\* and a present, parseable length; every other response (transport error, no
\* range support, length missing or unparsable) ends the run Failed, with no
\* file created and no goroutine launched.
ProbeGate ==
    /\ RunState \in {"Planning", "Transferring", "Done", "Panic"} => HeadOk
    /\ (phase \notin {"Idle", "Probing", "Rejected"} /\ ~HeadOk)
          => /\ phase = "Failed"
             /\ cause \in {"transport", "norange", "nolength", "badlength"}
             /\ fstate = "absent"
             /\ file = <<>>
             /\ launched = 0
             /\ wg = 0

\* The server sent a length and no Accept-Ranges header: the run has failed.
ProbeRejectWitness ==
    /\ phase = "Failed"
    /\ cause = "norange"
    /\ head.acceptRanges = ""
    /\ head.contentLength = FormatInt(MaxSize)
    /\ fstate = "absent"

InWait(k) == k \in Fetchers /\ pc[k] = "wait"

\* C8: in both limiters, with the clock ticking and every goroutine scheduled,
\* every Wait(n) with n <= capacity returns, other goroutines calling Wait at
\* the same time or not.
WaitReturnsEventually ==
    \A k \in 1..MaxThreads : InWait(k) ~> ~InWait(k)

\* One goroutine's Wait has returned while another waits for tokens that are
\* not there yet.
WaitWitness ==
    \E j, k \in Fetchers :
        /\ pc[j] = "wait"
        /\ pc[k] = "read"
        /\ tokens < Quantum
        /\ Quantum <= Capacity

\* C9 as claimed: in both limiters Wait takes its n tokens in one atomic step;
\* no Wait in progress has taken some of them and not all.
NoPartialWait == \A k \in Fetchers : pc[k] = "wait" => got[k] = 0

\* C9: in both limiters Wait returns only once it has taken exactly n tokens,
\* and every token it counts was taken from the bucket; APS2 takes the n in
\* one atomic step (a call in progress has taken none), APS1 takes them one at
\* a time, so a call in progress may have taken between 0 and n - 1.
WaitTakesExactly ==
    [][\A k \in Fetchers :
        /\ (pc[k] = "wait" /\ pc'[k] = "read") => got'[k] = Quantum
        /\ got'[k] > got[k] =>
              tokens' = (IF variant = "APS2" THEN Refill.tokens ELSE tokens)
                            - (got'[k] - got[k])
        /\ pc'[k] = "wait" =>
              IF variant = "APS2" THEN got'[k] = 0
              ELSE got'[k] \in 0..(Quantum - 1)]_vars

\* APS1: two goroutines each hold a part of what they wait for.
PartialWaitWitness ==
    /\ variant = "APS1"
    /\ \E j, k \in Fetchers :
        /\ j # k
        /\ pc[j] = "wait" /\ got[j] > 0
        /\ pc[k] = "wait" /\ got[k] > 0

\* The bytes of the file at goroutine j's offsets.
Region(f, j) == [o \in cstart[j]..cend[j] |-> IF o + 1 <= Len(f) THEN f[o + 1] ELSE 0]

\* C10: a failure of one goroutine ends that goroutine alone: the step leaves
\* the position, cursor and file region of every other goroutine as they
\* were, and no chunk is ever requested twice.
FailureIsLocal ==
    [][/\ \A k \in Fetchers : gets'[k] <= 1
       /\ \A k \in Fetchers :
            (pc[k] # "failed" /\ pc'[k] = "failed") =>
                \A j \in Fetchers \ {k} :
                    /\ pc'[j] = pc[j]
                    /\ offset'[j] = offset[j]
                    /\ Region(file', j) = Region(file, j)]_vars

\* A goroutine of the launch loop has not returned yet.
SomeRunning == \E k \in Fetchers : ~Returned(k)

\* C11: the output file is created and sized to fileSize once, before any
\* goroutine is launched, and closed only after all of them have returned: a
\* goroutine that has not returned has the file open and preallocated, and a
\* failure of os.Create or Truncate ends the run with no goroutine launched.
FileLifecycle ==
    /\ [](launched > 0 => fstate # "absent" /\ Len(file) >= fileSize)
    /\ [](SomeRunning => fstate = "open")
    /\ [](fstate = "closed" => phase \in {"Exited", "Failed"} /\ ~SomeRunning)
    /\ [](cause \in {"create", "truncate"} => phase = "Failed" /\ launched = 0)
    /\ [][fstate' # fstate =>
            \/ fstate = "absent" /\ fstate' = "open" /\ launched = 0
            \/ fstate = "open" /\ fstate' = "closed"]_vars
    /\ [][(phase = "Sizing" /\ phase' # "Sizing") =>
            /\ launched = 0
            /\ phase' = "Limiting" => file' = Zeros(fileSize)]_vars
    /\ [][phase' = "Sizing" => phase \in {"Creating", "Sizing"}]_vars

\* Two goroutines wrote into the preallocated file and the file was closed
\* after both had returned.
FileClosedWitness ==
    /\ phase = "Exited"
    /\ fstate = "closed"
    /\ launched = 2
    /\ \A k \in Fetchers : Returned(k) /\ wrote[k] # {}
    /\ Len(file) = fileSize

\* C12: in both programs a thread count <= 0 is turned away before the chunk
\* size is computed: no run stands at, or has faulted in, the two divisions
\* with threads <= 0.
ThreadsRejectedBeforePlan ==
    phase \in {"Planning", "Panic"} => threads > 0

\* C18: in APS1 the refill goroutine ends with the download: once wg.Wait has
\* returned, no tick is received and no token is sent any more.
RefillStopsAtDone ==
    [][(variant = "APS1" /\ RunState = "Done") =>
            (fillI' = fillI /\ tokens' = tokens)]_vars

\* C13: no read-and-throttle quantum is larger than 16 KiB: every Wait is
\* asked for at most 16 KiB of tokens and every read handed to the file writer
\* carries at most 16 KiB, although io.Copy offers a larger buffer.
QuantumBounded ==
    \A k \in Fetchers : got[k] <= ReadCap /\ buf[k] <= ReadCap

\* A read brought a full quantum although the buffer offered and the body
\* left were both larger.
QuantumWitness ==
    \E k \in Fetchers :
        /\ pc[k] = "write"
        /\ buf[k] = ReadCap
        /\ CopyBuf > ReadCap
        /\ Len(body[k]) - pos[k] > ReadCap

\* The least q with q * b >= a, for a >= 0 and b > 0.
CeilDiv(a, b) == CHOOSE q \in 0..a : q * b >= a /\ \A r \in 0..a : r * b >= a => q <= r

\* C14: for every file size > 0 and thread count > 0 the launch loop hands out
\* exactly the chunks [i*chunkSize, min((i+1)*chunkSize - 1, fileSize - 1)],
\* i = 0..chunks-1, with chunkSize = ceil(fileSize / threads) and
\* chunks = ceil(fileSize / chunkSize); chunks <= threads, and every chunk is
\* non-empty and inside the file (10/4 gives [0,2],[3,5],[6,8],[9,9]).
ChunkFormula ==
    (phase = "Waiting" /\ fileSize > 0 /\ threads > 0) =>
        /\ chunkSize = CeilDiv(fileSize, threads)
        /\ chunks = CeilDiv(fileSize, chunkSize)
        /\ chunks <= threads
        /\ Len(cstart) = chunks /\ Len(cend) = chunks
        /\ \A i \in 0..(chunks - 1) :
            /\ cstart[i + 1] = i * chunkSize
            /\ cend[i + 1] = Min((i + 1) * chunkSize - 1, fileSize - 1)
            /\ 0 <= cstart[i + 1]
            /\ cstart[i + 1] <= cend[i + 1]
            /\ cend[i + 1] <= fileSize - 1

\* 11 bytes and 4 threads: chunks of 3, the last one clipped to [9,10].
ChunkFormulaWitness ==
    /\ phase = "Waiting"
    /\ fileSize = 11
    /\ threads = 4
    /\ chunkSize = 3
    /\ chunks = 4
    /\ cstart = <<0, 3, 6, 9>>
    /\ cend = <<2, 5, 8, 10>>

\* C15 as claimed: the number of goroutines launched equals the thread count
\* given, for every file size > 0 and thread count > 0.
LaunchedEqualsThreads ==
    (phase = "Waiting" /\ fileSize > 0 /\ threads > 0) => launched = threads

\* C15: the run launches exactly one goroutine per planned chunk; their number
\* is chunks = ceil(fileSize / ceil(fileSize / threads)), which is at most the
\* thread count given, equals it when the thread count divides the file size,
\* and can be smaller otherwise (10 bytes and 7 threads: 5 goroutines).
OneFetcherPerChunk ==
    (phase = "Waiting" /\ fileSize > 0 /\ threads > 0) =>
        /\ launched = chunks
        /\ wg <= launched
        /\ Len(cstart) = launched
        /\ chunks = CeilDiv(fileSize, CeilDiv(fileSize, threads))
        /\ launched <= threads
        /\ fileSize % threads = 0 => launched = threads
        /\ \A j, k \in Fetchers : j # k => cstart[j] # cstart[k]

\* 10 bytes and 7 threads: chunks of 2, and 5 goroutines launched.
FewerFetchersWitness ==
    /\ phase = "Waiting"
    /\ fileSize = 10
    /\ threads = 7
    /\ launched = 5
    /\ cstart = <<0, 2, 4, 6, 8>>

\* C16: within one goroutine the writes go in increasing, gapless order along
\* the response body: the first is at start, each begins where the one before
\* ended (the cursor moves by the bytes written), byte i of the body is stored
\* at start + i, and the goroutine writes no offset twice.
WritesInOrder ==
    /\ [](\A k \in Fetchers :
            /\ wrote[k] = cstart[k]..(offset[k] - 1)
            /\ pc[k] \in {"wait", "read", "write"} => pos[k] = offset[k] - cstart[k])
    /\ [][\A k \in Fetchers :
            wrote'[k] # wrote[k] =>
                /\ offset'[k] > offset[k]
                /\ wrote'[k] \ wrote[k] = offset[k]..(offset'[k] - 1)
                /\ (offset[k]..(offset'[k] - 1)) \cap wrote[k] = {}
                /\ \A o \in offset[k]..(offset'[k] - 1) :
                        file'[o + 1] = body[k][o - cstart[k] + 1]]_vars

\* A chunk longer than one quantum has been written whole, in several writes.
InOrderWitness ==
    \E k \in Fetchers :
        /\ pc[k] = "ok"
        /\ cend[k] - cstart[k] + 1 > ReadCap
        /\ wrote[k] = cstart[k]..cend[k]
        /\ offset[k] = cend[k] + 1

\* C17: the tokens a goroutine takes equal the bytes it reads: each read that
\* brings q bytes, the last short read and the read that meets the end of the
\* body included, comes after a Wait that took exactly q tokens.
TokensEqualBytes ==
    [][\A k \in Fetchers :
        (pc[k] = "read" /\ pc'[k] \in {"write", "ok"}) => got[k] = buf'[k]]_vars

\* C19: under every interleaving of Wait calls and refills the token count
\* stays inside the bucket: 0 <= tokens <= bytesPerSec in APS2 whenever rl.mu
\* is free, and in APS1 between 0 and bytesPerSec tokens are queued and a send
\* of the refill goroutine is never blocked by a full channel.
TokensInBucket ==
    /\ 0 <= tokens
    /\ tokens <= Capacity
    /\ (RefillerAlive /\ fillI >= 0) => ENABLED RefillSend

\* APS1: the refill goroutine is in its pass and the channel is already full.
FullBucketWitness ==
    /\ variant = "APS1"
    /\ RefillerAlive
    /\ fillI >= 0
    /\ tokens = Capacity
    /\ \E k \in Fetchers : pc[k] = "wait"

\* C20: for every length getFileSize accepts, 0 included, and every thread
\* count > 0, the two divisions are defined: no run that got past the probe
\* faults with a division by zero.
PlanNeverDividesByZero ==
    threads > 0 => ~(phase = "Panic" /\ cause = "divide")
====
